---------------------------- MODULE Spec2Model ----------------------------
(***************************************************************************)
(* Model of microkernel-mod-cluster (src/microkernel-mod-cluster.js).      *)
(*                                                                         *)
(* One behaviour is the life of ONE process that loaded the module: the    *)
(* originating process (cluster.isMaster) or a forked worker.  The state   *)
(* is what the module reads and writes: the options, the published        *)
(* process mode, the subscriptions and latches it registered, the         *)
(* cluster.workers map, one record per stop() call, and what the last      *)
(* step handed to its collaborators (the log sink, the workers).           *)
(*                                                                         *)
(* The Node.js cluster facility is the environment.  It is modelled by    *)
(* its documented contract for the API the module uses: worker.suicide is  *)
(* set by the master's worker.disconnect() and worker.kill(); a worker     *)
(* leaves cluster.workers once it has both exited and disconnected;       *)
(* isConnected() stays true until the channel is really closed; the       *)
(* delivery of worker.kill() may throw for a worker whose process is gone  *)
(* while its exit event is pending.  The arguments sprintf() fills into a  *)
(* log message are left out: a message is its format string.               *)
(***************************************************************************)
EXTENDS Naturals, Sequences, FiniteSets, TLC

(* ------------------------------ bounds -------------------------------- *)
\* largest value of the "cluster" option that is explored
MaxN == 2
\* largest worker id cluster.fork() hands out (caps the respawns)
MaxId == 3
\* number of stop() calls explored
MaxStops == 2
\* number of shutdown directives a worker process is sent
MaxMsgs == 2

VARIABLES
    options,     \* kernel.rs("options:options"): cluster, daemon, daemon_kill
    isMaster,    \* cluster.isMaster of this process
    workerId,    \* cluster.worker.id of this process (0 in the master)
    pc,          \* "boot" before prepare(), "running" after it
    procmode,    \* kernel.rs("ctx:procmode"); "unset" until published
    clusterOn,   \* event names subscribed with cluster.on(...)
    processOn,   \* event names subscribed with process.on(...)
    latches,     \* hook names registered with kernel.latch(...) by prepare()
    workers,     \* cluster.workers: id -> worker
    nextId,      \* next id cluster.fork() assigns
    forks,       \* number of cluster.fork() calls: startup, respawn
    exits,       \* number of "exit" events handled: crashed, voluntary
    online,      \* number of "online" events handled
    stops,       \* one record per stop() call, in call order
    shutdownSv,  \* number of kernel.sv("shutdown", ...) calls (worker role)
    log,         \* lines the last step sent to the log sink
    calls        \* worker.send/disconnect/kill calls the last step made, in order

vars == << options, isMaster, workerId, pc, procmode, clusterOn, processOn,
           latches, workers, nextId, forks, exits, online, stops, shutdownSv,
           log, calls >>

Ids == 1 .. MaxId

Range(seq) == { seq[k] : k \in DOMAIN seq }

(* ------------------------- the cluster facility ----------------------- *)
\* a worker as cluster.fork() creates it
\*   connected : the IPC channel to the worker is open
\*   life      : "running"; "exited" (process gone, exit event pending);
\*               "dead" (exit event handled)
\*   sig       : worker.kill() was called: the termination signal goes out
\*               at once on a closed channel, otherwise at the disconnect
\*   suicide   : worker.suicide
NewWorker ==
    [ connected |-> TRUE, life |-> "running", sig |-> FALSE,
      suicide |-> FALSE ]

Pool == DOMAIN workers

\* the connection check left out
isConnectedUnchecked(worker) == TRUE

\* worker.isConnected()
isConnected(worker) == worker.connected

\* the liveness check inverted
isDeadInverted(worker) == worker.life # "dead"

\* worker.isDead()
isDead(worker) == worker.life = "dead"

\* the loop that forks once, whatever n is
forkOnce(ws, first, n) == IF n = 0 THEN ws ELSE ws @@ (first :> NewWorker)

\* n calls of cluster.fork() on the map ws, ids counting up from first
RECURSIVE forkN(_, _, _)
forkN(ws, first, n) ==
    IF n = 0 THEN ws
    ELSE forkN(ws @@ (first :> NewWorker), first + 1, n - 1)

\* the map without the workers that have both exited and disconnected
Reap(ws) ==
    [ id \in { i \in DOMAIN ws : ~(ws[i].life = "dead" /\ ~ws[i].connected) }
        |-> ws[id] ]

(* ------------------------------ logging ------------------------------- *)
\* the "logger:msg" latch of prepare()
loggerMsg(msg) ==
    LET id == IF ~isMaster THEN "WORKER-" \o ToString(workerId) ELSE "MASTER"
    IN  "[" \o id \o "]: " \o msg

\* kernel.sv("log", ...): the message passes through the latches registered
\* so far; lg are the lines the running handler has already sent, pm is the
\* process mode published at that moment
Emit(lg, lat, pm, msg) ==
    lg \cup { [ mode |-> pm, msg |-> msg,
                line |-> IF "logger:msg" \in lat THEN loggerMsg(msg) ELSE msg ] }

(* ------------------------------ gating -------------------------------- *)
\* the option compared with a value it never has
ClusterRequestedAlways == options.cluster # MaxN + 1

\* "we operate only if clustering is requested"
ClusterRequested == options.cluster # 0

\* the daemon_kill option forgotten
DaemonizedOnly == options.daemon

\* "we operate only in non daemonized mode"
Daemonized == options.daemon \/ options.daemon_kill

\* the role of the process not looked at
modeMaster == "master"

\* const mode = cluster.isMaster ? "master" : "worker"
mode == IF isMaster THEN "master" ELSE "worker"

\* the loop one iteration short
instancesShort == options.cluster - 1

\* const workers = kernel.rs("options:options").cluster
instances == options.cluster

(* ------------------------------- Init --------------------------------- *)
Init ==
    /\ options \in [ cluster : 0 .. MaxN, daemon : BOOLEAN, daemon_kill : BOOLEAN ]
    /\ isMaster \in BOOLEAN
    /\ workerId \in (IF isMaster THEN { 0 } ELSE Ids)
    /\ pc = "boot"
    /\ procmode = "unset"
    /\ clusterOn = {}
    /\ processOn = {}
    /\ latches = {}
    /\ workers = << >>
    /\ nextId = 1
    /\ forks = [ startup |-> 0, respawn |-> 0 ]
    /\ exits = [ crashed |-> 0, voluntary |-> 0 ]
    /\ online = 0
    /\ stops = << >>
    /\ shutdownSv = 0
    /\ log = {}
    /\ calls = << >>

(* ------------------------------ prepare ------------------------------- *)
prepare ==
    /\ pc = "boot"
    /\ pc' = "running"
    /\ IF ~ClusterRequested \/ Daemonized
       THEN /\ log' = {}
            /\ UNCHANGED << procmode, clusterOn, processOn, latches, workers,
                            nextId, forks >>
       ELSE /\ procmode' = mode
            /\ IF mode = "master"
               THEN /\ clusterOn' = { "fork", "online", "listening",
                                      "disconnect", "exit" }
                    /\ log' = Emit({}, latches, mode,
                                   "forking %d WORKER processes")
                    /\ workers' = forkN(workers, nextId, instances)
                    /\ nextId' = nextId + instances
                    /\ forks' = [ forks EXCEPT !.startup = @ + instances ]
                    /\ UNCHANGED processOn
               ELSE /\ processOn' = { "message" }
                    /\ log' = {}
                    /\ UNCHANGED << clusterOn, workers, nextId, forks >>
            /\ latches' = latches \cup { "logger:msg", "title:title" }
    /\ calls' = << >>
    /\ UNCHANGED << options, isMaster, workerId, exits, online, stops,
                    shutdownSv >>

(* --------------------- master: lifecycle handlers --------------------- *)
\* what the handlers and stop() leave alone
Frame == UNCHANGED << options, isMaster, workerId, pc, procmode, clusterOn,
                      processOn, latches, shutdownSv >>

\* cluster.on("fork", ...)
onFork(id) ==
    /\ "fork" \in clusterOn
    /\ id \in Pool
    /\ log' = Emit({}, latches, procmode, "worker #%d (pid: %d): forked")
    /\ calls' = << >>
    /\ Frame
    /\ UNCHANGED << workers, nextId, forks, exits, online, stops >>

\* cluster.on("online", ...): a forked worker reports that it runs, each
\* worker at most once
onOnline(id) ==
    /\ "online" \in clusterOn
    /\ id \in Pool
    /\ workers[id].life = "running"
    /\ online < forks.startup + forks.respawn
    /\ online' = online + 1
    /\ log' = Emit({}, latches, procmode, "worker #%d (pid: %d): online")
    /\ calls' = << >>
    /\ Frame
    /\ UNCHANGED << workers, nextId, forks, exits, stops >>

\* cluster.on("listening", ...)
onListening(id) ==
    /\ "listening" \in clusterOn
    /\ id \in Pool
    /\ workers[id].life = "running"
    /\ online > 0
    /\ log' = Emit({}, latches, procmode,
                   "worker #%d (pid: %d): listening to %s:%d [TCPv%d]")
    /\ calls' = << >>
    /\ Frame
    /\ UNCHANGED << workers, nextId, forks, exits, online, stops >>

\* cluster.on("disconnect", ...): the channel to the worker is closed
onDisconnect(id) ==
    /\ "disconnect" \in clusterOn
    /\ id \in Pool
    /\ workers[id].connected
    /\ workers' = Reap([ workers EXCEPT ![id].connected = FALSE ])
    /\ log' = Emit({}, latches, procmode,
                   "worker #%d (pid: %d): IPC channel disconnected")
    /\ calls' = << >>
    /\ Frame
    /\ UNCHANGED << nextId, forks, exits, online, stops >>

\* a worker process terminates (on its own, or by a delivered signal)
procExit(id) ==
    /\ id \in Pool
    /\ workers[id].life = "running"
    /\ workers' = [ workers EXCEPT ![id].life = "exited" ]
    /\ log' = {}
    /\ calls' = << >>
    /\ Frame
    /\ UNCHANGED << nextId, forks, exits, online, stops >>

\* the trace line of the exit handler
exitLine(worker, code, signal) ==
    LET way == IF worker.suicide THEN "expectedly" ELSE "unexpectedly"
    IN  IF signal # ""
        THEN "worker #%d (pid: %d): " \o way \o " terminated by signal " \o signal
        ELSE IF code # 0
        THEN "worker #%d (pid: %d): " \o way
                 \o " terminated due to error (exit code %d)"
        ELSE "worker #%d (pid: %d): " \o way \o " terminated with success"

\* the respawn without the check of worker.suicide
respawnAlways(worker) == TRUE

\* the respawn with the check of worker.suicide inverted
respawnMarked(worker) == worker.suicide

\* "respawn accidentally terminated worker": if (!worker.suicide)
respawn(worker) == ~worker.suicide

\* cluster.on("exit", ...)
onExit(id, code, signal) ==
    /\ "exit" \in clusterOn
    /\ id \in Pool
    /\ workers[id].life = "exited"
    /\ respawn(workers[id]) => nextId <= MaxId
    /\ LET worker == workers[id]
           gone   == Reap([ workers EXCEPT ![id].life = "dead" ])
           traced == Emit({}, latches, procmode, exitLine(worker, code, signal))
       IN  IF respawn(worker)
           THEN /\ log' = Emit(traced, latches, procmode,
                    "re-forking WORKER process after unexpected termination")
                /\ workers' = forkN(gone, nextId, 1)
                /\ nextId' = nextId + 1
                /\ forks' = [ forks EXCEPT !.respawn = @ + 1 ]
           ELSE /\ log' = traced
                /\ workers' = gone
                /\ UNCHANGED << nextId, forks >>
    /\ exits' = IF workers[id].suicide
                THEN [ exits EXCEPT !.voluntary = @ + 1 ]
                ELSE [ exits EXCEPT !.crashed = @ + 1 ]
    /\ calls' = << >>
    /\ Frame
    /\ UNCHANGED << online, stops >>

(* ----------------------- worker: message handler ---------------------- *)
\* the messages a worker process is sent
Inbound == { "shutdown", "Shutdown", "ping" }

\* the test of the message left out
isDirectiveAny(msg) == TRUE

\* if (msg === "shutdown")
isDirective(msg) == msg = "shutdown"

\* process.on("message", ...)
onMessage(msg) ==
    /\ "message" \in processOn
    /\ IF isDirective(msg)
       THEN /\ shutdownSv < MaxMsgs
            /\ log' = Emit({}, latches, procmode,
                           "worker #%d (pid: %d): received shutdown message")
            /\ shutdownSv' = shutdownSv + 1
       ELSE /\ log' = {}
            /\ UNCHANGED shutdownSv
    /\ calls' = << >>
    /\ UNCHANGED << options, isMaster, workerId, pc, procmode, clusterOn,
                    processOn, latches, workers, nextId, forks, exits, online,
                    stops >>

(* -------------------------------- stop -------------------------------- *)
\* worker.disconnect() that leaves worker.suicide alone
disconnectUnmarked(worker) == worker

\* worker.disconnect() in the master: marks the worker and asks it to close
disconnect(worker) == [ worker EXCEPT !.suicide = TRUE ]

\* worker.kill() in the master: marks the worker and signals it
kill(worker) == [ worker EXCEPT !.suicide = TRUE, !.sig = TRUE ]

\* worker.kill() that throws: the worker is marked, no signal is delivered
killThrown(worker) == [ worker EXCEPT !.suicide = TRUE ]

\* the delivery of the signal can fail for a worker whose process is gone
\* while its exit event is still to come
mayThrow(worker) == worker.life = "exited"

\* the two calls in the wrong order
notifySwapped(id) == << << "disconnect", id >>, << "send", id >> >>

\* worker.send("shutdown"); worker.disconnect()
notify(id) == << << "send", id >>, << "disconnect", id >> >>

\* Object.keys(cluster.workers).forEach(...) of the graceful phase, from id i
\* on (integer keys are enumerated in ascending order): the calls it makes
RECURSIVE graceful(_, _)
graceful(ws, i) ==
    IF i > MaxId THEN << >>
    ELSE (IF i \in DOMAIN ws /\ isConnected(ws[i]) THEN notify(i) ELSE << >>)
             \o graceful(ws, i + 1)

\* the body of the loop without the call
attemptNone(i, bad) == << >>

\* try { worker.kill() } catch (ex) {}: the call, and the exception it threw
\* if i is one of the workers bad for which the delivery fails
attempt(i, bad) ==
    IF i \in bad THEN << << "kill", i >>, << "throw", i >> >>
    ELSE << << "kill", i >> >>

\* the loop without the try/catch: the first exception ends it
RECURSIVE killingUncaught(_, _, _)
killingUncaught(ws, i, bad) ==
    IF i > MaxId THEN << >>
    ELSE IF i \in DOMAIN ws /\ ~isDead(ws[i])
    THEN (IF i \in bad THEN attempt(i, bad)
          ELSE attempt(i, bad) \o killingUncaught(ws, i + 1, bad))
    ELSE killingUncaught(ws, i + 1, bad)

\* workers.forEach(...) of the drain phase, from id i on: the calls it makes
RECURSIVE killing(_, _, _)
killing(ws, i, bad) ==
    IF i > MaxId THEN << >>
    ELSE (IF i \in DOMAIN ws /\ ~isDead(ws[i]) THEN attempt(i, bad)
          ELSE << >>)
             \o killing(ws, i + 1, bad)

\* the workers after the calls ops were made on them
Apply(ws, ops) ==
    [ id \in DOMAIN ws |->
        LET d == IF << "disconnect", id >> \in Range(ops)
                 THEN disconnect(ws[id]) ELSE ws[id]
        IN  IF << "throw", id >> \in Range(ops) THEN killThrown(d)
            ELSE IF << "kill", id >> \in Range(ops) THEN kill(d)
            ELSE d ]

\* the gate on the process mode left out
stopGatedDaemon == Daemonized

\* the two gates of stop()
stopGated == procmode # "master" \/ Daemonized

\* stop(): state is "noop" (returned at once), "draining" (timer running) or
\* "resolved"; empty records that cluster.workers was empty at the call,
\* ticked that the timer of the call has fired
stop ==
    /\ pc = "running"
    /\ Len(stops) < MaxStops
    /\ IF stopGated
       THEN /\ stops' = Append(stops, [ state |-> "noop", empty |-> Pool = {},
                                        ticked |-> FALSE ])
            /\ log' = {}
            /\ calls' = << >>
            /\ UNCHANGED workers
       ELSE /\ log' = Emit({}, latches, procmode, "shutdown WORKER processes")
            /\ calls' = graceful(workers, 1)
            /\ workers' = Apply(workers, calls')
            /\ stops' = Append(stops, [ state |-> "draining",
                                        empty |-> Pool = {},
                                        ticked |-> FALSE ])
    /\ Frame
    /\ UNCHANGED << nextId, forks, exits, online >>

\* the length check off by one
drainedLoose(ws) == Cardinality(DOMAIN ws) <= 1

\* the length compared with the wrong number
drainedOne(ws) == Cardinality(DOMAIN ws) = 1

\* if (workers.length === 0)
drained(ws) == Cardinality(DOMAIN ws) = 0

\* the timer that is never cleared
timerActiveEver(call) == call.state # "noop"

\* the timer of a stop() call fires from setInterval(...) until
\* clearTimeout(interval), which the callback calls when it resolves
timerActive(call) == call.state = "draining"

\* the setInterval callback of stop() call c; in a tick that kills, any of
\* the deliveries that can fail does or does not
interval(c) ==
    /\ c \in DOMAIN stops
    /\ timerActive(stops[c])
    /\ IF drained(workers)
       THEN /\ stops' = [ stops EXCEPT ![c].state = "resolved",
                                       ![c].ticked = TRUE ]
            /\ log' = {}
            /\ calls' = << >>
            /\ UNCHANGED workers
       ELSE /\ \E bad \in SUBSET { id \in Pool : mayThrow(workers[id]) } :
                   calls' = killing(workers, 1, bad)
            /\ workers' = Apply(workers, calls')
            /\ log' = IF calls' = << >> THEN {}
                      ELSE Emit({}, latches, procmode,
                             "remaining worker #%d (pid: %d): to be killed now")
            /\ stops' = [ stops EXCEPT ![c].ticked = TRUE ]
    /\ Frame
    /\ UNCHANGED << nextId, forks, exits, online >>

(* ---------------------------- specification --------------------------- *)
Next ==
    \/ prepare
    \/ stop
    \/ \E c \in 1 .. MaxStops : interval(c)
    \/ \E id \in Ids : onFork(id)
    \/ \E id \in Ids : onOnline(id)
    \/ \E id \in Ids : onListening(id)
    \/ \E id \in Ids : onDisconnect(id)
    \/ \E id \in Ids : procExit(id)
    \/ \E id \in Ids, code \in { 0, 1 }, signal \in { "", "SIGTERM" } :
           onExit(id, code, signal)
    \/ \E msg \in Inbound : onMessage(msg)

Spec == Init /\ [][Next]_vars

(* ------------------------------- claims ------------------------------- *)
\* the handlers of the exits handled so far
Handled == exits.crashed + exits.voluntary

\* the last step was the graceful phase of a stop() call
Graceful == \E l \in log : l.msg = "shutdown WORKER processes"

\* how often the last step made the call op on worker id
Count(op, id) == Cardinality({ k \in DOMAIN calls : calls[k] = << op, id >> })

\* the core did nothing: no fork, no subscription, no latch, no published
\* mode, no line, no call on a worker, and every stop() returned at once
Inert ==
    /\ forks.startup = 0 /\ forks.respawn = 0 /\ Pool = {}
    /\ clusterOn = {} /\ processOn = {} /\ latches = {}
    /\ procmode = "unset"
    /\ log = {} /\ calls = << >>
    /\ \A c \in DOMAIN stops : stops[c].state = "noop"

\* C1: the exit handler issues exactly one replacement fork for every exit of
\* a worker the master had not marked, and none for an exit of a marked one:
\* after k crashed exits and any number of voluntary ones, k forks were issued
C1_RespawnPerCrash == forks.respawn = exits.crashed

C1_Witness == exits.crashed >= 2 /\ exits.voluntary >= 1

\* C2: with cluster = N > 0 and no daemon flag, prepare() in the originating
\* process issues exactly N forks, and once N workers are confirmed online
\* with no exit handled, cluster.workers holds exactly N records
C2_StartupForks ==
    (pc = "running" /\ isMaster /\ options.cluster > 0
        /\ ~options.daemon /\ ~options.daemon_kill)
    => /\ forks.startup = options.cluster
       /\ (online = options.cluster /\ Handled = 0)
              => Cardinality(Pool) = options.cluster

C2_Witness ==
    /\ isMaster /\ options.cluster >= 2 /\ online = options.cluster
    /\ Handled = 0 /\ Cardinality(Pool) = options.cluster

\* C3: while the promise of a stop() call is resolved, cluster.workers is
\* empty: the tick that resolves sees an empty pool, and no worker is forked
\* into it afterwards
C3_ResolvedOnlyWhenEmpty ==
    \A c \in DOMAIN stops : stops[c].state = "resolved" => Pool = {}

C3_Witness ==
    \E c \in DOMAIN stops :
        /\ stops[c].state = "resolved" /\ ~stops[c].empty
        /\ forks.respawn >= 1 /\ exits.voluntary >= 1

\* C5: the graceful phase of a stop() call sends one directive to, and calls
\* one disconnect on, every worker whose channel is connected at that moment,
\* and makes no call on any other worker
C5_GracefulTargets ==
    Graceful =>
        \A id \in Ids :
            /\ Count("kill", id) = 0
            /\ IF id \in Pool /\ workers[id].connected
               THEN Count("send", id) = 1 /\ Count("disconnect", id) = 1
               ELSE Count("send", id) = 0 /\ Count("disconnect", id) = 0

C5_Witness ==
    /\ Graceful
    /\ Cardinality({ id \in Pool : workers[id].connected }) >= 2
    /\ \E id \in Pool : ~workers[id].connected

\* C7: with cluster = 0 the core is inert, whatever the daemon flags and the
\* role of the process
C7_ClusterZeroInert == options.cluster = 0 => Inert

C7_Witness ==
    /\ options.cluster = 0 /\ isMaster
    /\ ~options.daemon /\ ~options.daemon_kill
    /\ pc = "running" /\ Len(stops) >= 1

\* C8: with the daemon or the daemon_kill flag set the core is inert, whatever
\* the cluster option
C8_DaemonInert == (options.daemon \/ options.daemon_kill) => Inert

C8_Witness ==
    /\ options.daemon_kill /\ ~options.daemon /\ options.cluster > 0
    /\ isMaster /\ pc = "running" /\ Len(stops) >= 1

\* the line of the graceful phase as the master's log sink receives it
StopLine ==
    [ mode |-> "master", msg |-> "shutdown WORKER processes",
      line |-> "[MASTER]: shutdown WORKER processes" ]

\* the calls of the last step keep the order send, disconnect per worker
SendFirst ==
    \A k \in DOMAIN calls :
        calls[k][1] = "disconnect"
            => k > 1 /\ calls[k - 1] = << "send", calls[k][2] >>

\* C6 (as amended): within every stop() call each disconnect of a worker
\* directly follows the send of the directive to that worker, and a directive
\* is only sent on a channel that is still connected
C6_SendThenDisconnect ==
    /\ SendFirst
    /\ \A k \in DOMAIN calls :
           calls[k][1] = "send"
               => calls[k][2] \in Pool /\ workers[calls[k][2]].connected

C6_Witness ==
    /\ Len(stops) = 2 /\ Graceful
    /\ Len(calls) >= 4 /\ calls[1][1] = "send" /\ calls[2][1] = "disconnect"

\* C6 (as claimed): in every execution no directive is sent to a worker whose
\* channel the master has already asked to close, and no disconnect precedes
\* the send within a call
C6_Original ==
    [][ /\ SendFirst'
        /\ \A k \in DOMAIN calls' :
               calls'[k][1] = "send" => ~workers[calls'[k][2]].suicide ]_vars

\* the stop() calls that passed the gates with an empty cluster.workers
EmptyStops == { c \in DOMAIN stops : stops[c].state # "noop" /\ stops[c].empty }

\* C9 (as amended): a stop() call made with an empty pool sends no directive,
\* closes no channel and issues no termination signal, its first tick
\* resolves it, and the only line it emits is "shutdown WORKER processes"
C9_EmptyPoolStop ==
    \A c \in EmptyStops :
        /\ calls = << >>
        /\ log \subseteq { StopLine }
        /\ stops[c].ticked => stops[c].state = "resolved"

C9_Witness ==
    /\ Len(stops) = 2
    /\ stops[1].state = "resolved" /\ ~stops[1].empty
    /\ stops[2].state = "resolved" /\ stops[2].empty

\* C9 (as claimed): a stop() call made with an empty pool emits no log line,
\* makes no call on a worker, and resolves
C9_Original ==
    \A c \in EmptyStops :
        /\ calls = << >>
        /\ log = {}
        /\ stops[c].ticked => stops[c].state = "resolved"

\* text begins with prefix
BeginsWith(text, prefix) ==
    Len(text) >= Len(prefix) /\ SubSeq(text, 1, Len(prefix)) = prefix

\* C10: every line emitted while the published mode is master begins with
\* "[MASTER]: ", and every line emitted in worker mode with worker id k
\* begins with "[WORKER-k]: "
C10_LogPrefix ==
    \A l \in log :
        /\ l.mode = "master" => BeginsWith(l.line, "[MASTER]: ")
        /\ l.mode = "worker"
               => BeginsWith(l.line, "[WORKER-" \o ToString(workerId) \o "]: ")

(* ------------------------------ liveness ------------------------------ *)
\* the originating process with clustering requested and no daemon flag
LiveInit ==
    /\ Init
    /\ isMaster /\ options.cluster > 0
    /\ ~options.daemon /\ ~options.daemon_kill

LiveNext ==
    \/ prepare
    \/ stop
    \/ \E c \in 1 .. MaxStops : interval(c)
    \/ \E id \in Ids : onFork(id)
    \/ \E id \in Ids : onOnline(id)
    \/ \E id \in Ids : onListening(id)
    \/ \E id \in Ids : onDisconnect(id)
    \/ \E id \in Ids : procExit(id)
    \/ \E id \in Ids, code \in { 0, 1 }, signal \in { "", "SIGTERM" } :
           onExit(id, code, signal)

\* the channel of the worker is closing: the master asked for it, or the
\* process is gone
Closing(id) == workers[id].suicide \/ workers[id].life # "running"

\* the termination signal has reached the worker
Signalled(id) == workers[id].sig /\ ~workers[id].connected

\* the timer keeps firing, a closing channel is reported closed, a signalled
\* process terminates, and a terminated process is reported
LiveSpec ==
    /\ LiveInit
    /\ [][LiveNext]_vars
    /\ \A c \in 1 .. MaxStops : WF_vars(interval(c))
    /\ \A id \in Ids :
           /\ WF_vars(onDisconnect(id) /\ Closing(id))
           /\ WF_vars(procExit(id) /\ Signalled(id))
           /\ WF_vars(\E code \in { 0, 1 }, signal \in { "", "SIGTERM" } :
                          onExit(id, code, signal))

\* C4: under that fairness every stop() call that started draining is
\* eventually resolved
C4_StopEventuallyResolves ==
    \A c \in 1 .. MaxStops :
        (c \in DOMAIN stops /\ stops[c].state = "draining")
            ~> (c \in DOMAIN stops /\ stops[c].state = "resolved")

C4_Witness ==
    \E c \in DOMAIN stops :
        /\ stops[c].state = "resolved" /\ ~stops[c].empty
        /\ exits.voluntary >= 2

(* --------------------------- pool accounting -------------------------- *)
\* the workers of cluster.workers whose exit event has not been handled
Alive == { id \in Pool : workers[id].life # "dead" }

\* the workers whose process is gone and whose exit event is still to come
Pending == { id \in Pool : workers[id].life = "exited" }

\* the master is supervising and stop() has not been called
Supervising == procmode = "master" /\ Len(stops) = 0

\* C11 (as amended): before stop() every handled exit has forked exactly one
\* replacement, and the workers of the pool that are not dead number exactly
\* N; the pool itself holds in addition every dead worker whose channel is
\* not yet reported closed, so it has N records once those are gone
C11_PoolRestored ==
    Supervising =>
        /\ forks.respawn = Handled
        /\ Cardinality(Alive) = options.cluster
        /\ Cardinality(Pool) = options.cluster + Cardinality(Pool \ Alive)

C11_Witness ==
    /\ Supervising /\ options.cluster = 2
    /\ exits.crashed >= 1 /\ Pending = {} /\ Cardinality(Pool) = 2

\* C11 (as claimed): before stop() the pool never holds more than N workers,
\* and holds exactly N whenever no exit event is pending
C11_Original ==
    Supervising =>
        /\ Cardinality(Pool) <= options.cluster
        /\ Pending = {} => Cardinality(Pool) = options.cluster

(* ------------------------------ drain tick ---------------------------- *)
\* the last step was a drain tick in which a worker.kill() threw
Thrown == { calls[k][2] : k \in { j \in DOMAIN calls : calls[j][1] = "throw" } }

\* C12: a worker.kill() that throws in a drain tick is swallowed: every
\* worker of the pool that is not dead was still signalled exactly once in
\* that tick, the stop() call of the tick goes on draining, and no stop()
\* call ever has an outcome other than returned, draining or resolved
C12_KillFailureSwallowed ==
    /\ \A c \in DOMAIN stops :
           stops[c].state \in { "noop", "draining", "resolved" }
    /\ Thrown # {} =>
           /\ \A id \in Alive : Count("kill", id) = 1
           /\ \E c \in DOMAIN stops :
                  stops[c].state = "draining" /\ stops[c].ticked

C12_Witness ==
    /\ Thrown # {}
    /\ \E k \in DOMAIN calls :
           /\ calls[k][1] = "throw"
           /\ k < Len(calls) /\ calls[k + 1][1] = "kill"
           /\ workers[calls[k + 1][2]].life = "running"

(* ---------------------------- worker process -------------------------- *)
\* the line the worker logs on receipt of the directive
ReceivedLine ==
    \E l \in log :
        l.mode = "worker"
            /\ l.msg = "worker #%d (pid: %d): received shutdown message"

\* C13: a worker that receives "shutdown" logs the receipt and calls the
\* host's shutdown service once; any other message emits nothing and changes
\* nothing; and the shutdown service is only ever called by the handling of
\* a received "shutdown" in a process whose published mode is worker
C13_WorkerMessages ==
    [][ /\ onMessage("shutdown")
            => shutdownSv' = shutdownSv + 1 /\ ReceivedLine'
        /\ \A msg \in Inbound \ { "shutdown" } :
               onMessage(msg)
                   => /\ log' = {} /\ calls' = << >>
                      /\ UNCHANGED << options, isMaster, workerId, pc, procmode,
                                      clusterOn, processOn, latches, workers,
                                      nextId, forks, exits, online, stops,
                                      shutdownSv >>
        /\ shutdownSv' # shutdownSv
               => procmode = "worker" /\ onMessage("shutdown") ]_vars

C13_Witness ==
    /\ procmode = "worker" /\ Len(stops) = 0
    /\ shutdownSv = MaxMsgs /\ log = {}

(* ---------------------------- role resolution ------------------------- *)
\* the rules of the role resolution, in their order
Resolved ==
    IF options.cluster = 0 THEN "disabled"
    ELSE IF options.daemon \/ options.daemon_kill THEN "disabled"
    ELSE IF isMaster THEN "master"
    ELSE "worker"

\* C14: for every combination of the cluster option, the two daemon flags
\* and the role of the process, prepare() resolves the mode by the rules in
\* their order; it publishes master or worker as ctx:procmode and publishes
\* nothing when the core is disabled; exactly the master forks (and
\* subscribes to the cluster events) and exactly the worker subscribes to
\* the message channel; before prepare() nothing of this has happened
C14_RoleResolution ==
    /\ pc = "boot"
           => /\ procmode = "unset" /\ forks.startup = 0
              /\ clusterOn = {} /\ processOn = {}
    /\ pc = "running"
           => /\ procmode = (IF Resolved = "disabled" THEN "unset" ELSE Resolved)
              /\ forks.startup > 0 <=> Resolved = "master"
              /\ clusterOn # {} <=> Resolved = "master"
              /\ Pool # {} => Resolved = "master"
              /\ "message" \in processOn <=> Resolved = "worker"

C14_Witness ==
    /\ pc = "running" /\ ~isMaster /\ workerId = 2
    /\ options.cluster = 2 /\ ~options.daemon /\ ~options.daemon_kill
    /\ procmode = "worker" /\ processOn = { "message" } /\ Pool = {}

(* ---------------------------- classification -------------------------- *)
\* the last step called worker.disconnect() or worker.kill() on worker id
Initiated(id) ==
    << "disconnect", id >> \in Range(calls) \/ << "kill", id >> \in Range(calls)

\* the step handles the exit event of worker id
Exiting(id) ==
    /\ id \in Pool /\ workers[id].life = "exited"
    /\ id \in DOMAIN workers' => workers'[id].life = "dead"

\* the last step logged an exit the given way
ExitLogged(way) ==
    \E l \in log, code \in { 0, 1 }, signal \in { "", "SIGTERM" } :
        l.msg = exitLine([ suicide |-> way = "expectedly" ], code, signal)

\* C15: a worker becomes marked exactly in a step in which the master calls
\* disconnect() or kill() on it, and stays marked; the exit of a marked
\* worker is logged and counted as expected and forks nothing, the exit of
\* any other worker as unexpected; so no exit is voluntary before the first
\* stop() call
C15_Classification ==
    [][ /\ \A id \in Pool \cap DOMAIN workers' :
               IF workers[id].suicide THEN workers'[id].suicide
               ELSE workers'[id].suicide <=> Initiated(id)'
        /\ \A id \in Pool :
               Exiting(id) =>
                   IF workers[id].suicide
                   THEN /\ exits' = [ exits EXCEPT !.voluntary = @ + 1 ]
                        /\ ExitLogged("expectedly")' /\ forks' = forks
                   ELSE /\ exits' = [ exits EXCEPT !.crashed = @ + 1 ]
                        /\ ExitLogged("unexpectedly")'
        /\ Len(stops) = 0 => exits'.voluntary = 0 ]_vars

C15_Witness ==
    /\ ExitLogged("expectedly")
    /\ exits.voluntary >= 2 /\ exits.crashed >= 1

(* ------------------------------- shutdown ----------------------------- *)
\* a stop() call has passed the gates: the shutdown has started
ShuttingDown == \E c \in DOMAIN stops : stops[c].state # "noop"

\* C16: once a stop() call has passed the gates, no step forks a worker and
\* no step makes cluster.workers larger
C16_NoForkDuringShutdown ==
    [][ ShuttingDown
            => /\ forks' = forks
               /\ Cardinality(DOMAIN workers') <= Cardinality(Pool) ]_vars

\* the step is a tick of the timer of some stop() call
Tick == \E c \in DOMAIN stops : interval(c)

\* C17: a tick that finds cluster.workers non-empty calls kill() exactly once
\* on every worker in it that is not dead and on no dead worker; a tick that
\* finds it empty makes no call; and kill() is called in no other step, so
\* never before the timer of a stop() call has fired
C17_DrainTick ==
    [][ /\ Tick =>
               \A id \in Ids :
                   Count("kill", id)' =
                       IF id \in Pool /\ workers[id].life # "dead" THEN 1 ELSE 0
        /\ (Tick /\ Pool = {}) => calls' = << >>
        /\ (\E id \in Ids : Count("kill", id)' > 0)
               => Tick /\ \E c \in DOMAIN stops' : stops'[c].ticked ]_vars

C17_Witness ==
    /\ \E id \in Pool : workers[id].life = "running" /\ Count("kill", id) = 1
    /\ \E id \in Pool : workers[id].life = "dead" /\ Count("kill", id) = 0

\* C18: a tick of a stop() call that finds cluster.workers empty resolves the
\* call; a call only becomes resolved by such a tick of its own timer; a
\* resolved call stays resolved, and its timer does not fire again, so it
\* makes no further call and emits no further line
C18_ResolveStopsTimer ==
    [][ \A c \in DOMAIN stops :
            /\ (interval(c) /\ Pool = {}) => stops'[c].state = "resolved"
            /\ (stops[c].state # "resolved" /\ stops'[c].state = "resolved")
                   => interval(c) /\ Pool = {} /\ log' = {} /\ calls' = << >>
            /\ stops[c].state = "resolved"
                   => stops'[c].state = "resolved" /\ ~interval(c) ]_vars

C18_Witness ==
    /\ Len(stops) = 2
    /\ stops[1].state = "resolved" /\ ~stops[1].empty
    /\ stops[2].state = "draining" /\ stops[2].ticked

\* C19: while the published process mode is not master (it is worker, or
\* none is published), every stop() call has returned at once: no timer is
\* running, no call was made on a worker and the line of the graceful phase
\* was not logged; and a process that is not the originating one has never
\* forked, holds no worker and makes no call on one
C19_StopGatedByMode ==
    /\ procmode # "master"
           => /\ \A c \in DOMAIN stops :
                     stops[c].state = "noop" /\ ~timerActive(stops[c])
              /\ calls = << >> /\ ~Graceful
    /\ ~isMaster
           => /\ procmode # "master"
              /\ forks.startup = 0 /\ forks.respawn = 0 /\ Pool = {}
              /\ clusterOn = {} /\ calls = << >>

C19_Witness ==
    /\ procmode = "worker" /\ shutdownSv >= 1
    /\ Len(stops) = MaxStops /\ stops[MaxStops].state = "noop"

(* ----------------------------- quiet running -------------------------- *)
\* no worker process has terminated
NoExit == Handled = 0 /\ \A id \in Pool : workers[id].life = "running"

\* C20: as long as stop() has not been called, no step has sent a directive,
\* disconnected or killed a worker, and no worker is marked or signalled;
\* and while in addition no worker process has terminated, the master has
\* forked no replacement and cluster.workers holds exactly the N workers of
\* the startup, also once all N are online
C20_QuietBeforeStop ==
    Len(stops) = 0 =>
        /\ calls = << >>
        /\ \A id \in Pool : ~workers[id].suicide /\ ~workers[id].sig
        /\ (procmode = "master" /\ NoExit)
               => /\ forks.respawn = 0
                  /\ Pool = 1 .. options.cluster

C20_Witness ==
    /\ Supervising /\ NoExit /\ options.cluster = MaxN
    /\ online = MaxN /\ Pool = 1 .. MaxN
    /\ \E l \in log :
           l.msg = "worker #%d (pid: %d): listening to %s:%d [TCPv%d]"


=============================================================================
